---- MODULE Spec2Model ----
(***************************************************************************)
(* Quiz session, question bank and answer log of quiz-app-boilerplate.     *)
(*                                                                         *)
(* The persistent state is the IndexedDB database (object stores           *)
(* 'questions' and 'userAnswers') and the localStorage item 'hintCount';   *)
(* the volatile state is one Quiz object.  Every async method is modelled  *)
(* as one atomic action (calls are serialized by the page).                *)
(*                                                                         *)
(* JavaScript values that may be undefined, null, a boolean or a number    *)
(* are tagged records, so that `undefined` and `false` are different       *)
(* values.  Strings that are graded are sequences of one-character         *)
(* strings.                                                                *)
(***************************************************************************)
EXTENDS Integers, Sequences, FiniteSets, TLC

(***************************************************************************)
(* Bounds of the model.                                                    *)
(***************************************************************************)
MaxSubmits == 2
MaxHints == 1
MaxLen == 3
MaxVersion == 2

(***************************************************************************)
(* JavaScript values.                                                      *)
(***************************************************************************)
Undefined == [k |-> "undefined"]

Null == [k |-> "null"]

NaN == [k |-> "NaN"]

JSBool(b) == [k |-> "boolean", b |-> b]

JSStr(s) == [k |-> "string", s |-> s]

RECURSIVE Gcd(_, _)
Gcd(a, b) == IF b = 0 THEN a ELSE Gcd(b, a % b)

\* the number p/q in lowest terms; 0/0 is NaN (the only division by zero
\* the program performs)
JSNum(p, q) ==
    IF q = 0 THEN NaN
    ELSE LET g == Gcd(p, q) IN
         IF g = 0 THEN [k |-> "number", p |-> 0, q |-> 1]
         ELSE [k |-> "number", p |-> p \div g, q |-> q \div g]

\* ToBoolean
Truthy(v) ==
    CASE v.k = "boolean" -> v.b
      [] v.k = "number" -> v.p # 0
      [] v.k = "string" -> v.s # ""
      [] v.k = "object" -> TRUE
      [] OTHER -> FALSE

\* property read / destructuring: a missing property, and any property of a
\* primitive boolean, is undefined
Prop(v, name) ==
    IF v.k = "object" /\ name \in DOMAIN v THEN v[name] ELSE Undefined

(***************************************************************************)
(* Strings.                                                                *)
(***************************************************************************)
Chars == {"a", "A", "b", " "}

RECURSIVE StringsOfLen(_)
StringsOfLen(n) ==
    IF n = 0 THEN {<<>>}
    ELSE {Append(s, c) : s \in StringsOfLen(n - 1), c \in Chars}

Strings == UNION {StringsOfLen(n) : n \in 0..MaxLen}

ToLowerChar(c) == IF c = "A" THEN "a" ELSE c

RECURSIVE ToLowerCase(_)
ToLowerCase(s) ==
    IF s = <<>> THEN <<>>
    ELSE <<ToLowerChar(Head(s))>> \o ToLowerCase(Tail(s))

RECURSIVE TrimStart(_)
TrimStart(s) ==
    IF s = <<>> THEN <<>>
    ELSE IF Head(s) = " " THEN TrimStart(Tail(s)) ELSE s

RECURSIVE TrimEnd(_)
TrimEnd(s) ==
    IF s = <<>> THEN <<>>
    ELSE IF s[Len(s)] = " " THEN TrimEnd(SubSeq(s, 1, Len(s) - 1)) ELSE s

Trim(s) == TrimEnd(TrimStart(s))

Includes(s, sub) ==
    \E i \in 0..(Len(s) - Len(sub)) : SubSeq(s, i + 1, i + Len(sub)) = sub

RECURSIVE Filter(_, _, _)
\* keywords.filter(keyword => text.includes(keyword.toLowerCase())), text
\* already lower-cased
Filter(keywords, text, i) ==
    IF i > Len(keywords) THEN <<>>
    ELSE (IF Includes(text, ToLowerCase(keywords[i]))
          THEN <<keywords[i]>> ELSE <<>>) \o Filter(keywords, text, i + 1)

(***************************************************************************)
(* Question records.  An objective question has no keywords, minKeywords   *)
(* or maxLength property; the model gives it <<>>, 0 and 0, which is what  *)
(* every read of these properties defaults from.                           *)
(***************************************************************************)
QuestionData(id, text, type, version, expected, keywords, minKw, maxLen) ==
    [id |-> id, question |-> text, type |-> type, version |-> version,
     expectedAnswer |-> expected, keywords |-> keywords,
     minKeywords |-> minKw, maxLength |-> maxLen]

QuestionFromJSON(data) ==
    LET subjective == data.type = "subjective" IN
    [id |-> data.id,
     question |-> data.question,
     type |-> data.type,
     version |-> IF data.version # 0 THEN data.version ELSE 1,
     expectedAnswer |-> data.expectedAnswer,
     keywords |-> IF subjective THEN data.keywords ELSE <<>>,
     minKeywords |-> IF subjective THEN data.minKeywords ELSE 0,
     maxLength |-> IF subjective THEN data.maxLength ELSE 0]

QuestionToJSON(q) ==
    LET subjective == q.type = "subjective" IN
    [id |-> q.id,
     question |-> q.question,
     type |-> q.type,
     version |-> q.version,
     expectedAnswer |-> q.expectedAnswer,
     keywords |-> IF subjective THEN q.keywords ELSE <<>>,
     minKeywords |-> IF subjective THEN q.minKeywords ELSE 0,
     maxLength |-> IF subjective THEN q.maxLength ELSE 0]

(***************************************************************************)
(* The object stores: a function from the keys present to the records.     *)
(***************************************************************************)
EmptyStore == [key \in {} |-> Undefined]

\* store.put(item) under key
StorageSave(store, key, item) ==
    [x \in DOMAIN store \cup {key} |-> IF x = key THEN item ELSE store[x]]

\* store.get(key)
StorageGetById(store, key) ==
    IF key \in DOMAIN store THEN store[key] ELSE Undefined

RECURSIVE SortedKeys(_)
SortedKeys(S) ==
    IF S = {} THEN <<>>
    ELSE LET m == CHOOSE x \in S : \A y \in S : x <= y
         IN <<m>> \o SortedKeys(S \ {m})

\* store.getAll(): the records in ascending key order
StorageGetAll(store) ==
    LET keys == SortedKeys(DOMAIN store)
    IN [i \in 1..Len(keys) |-> store[keys[i]]]

QuestionGetAll(store) ==
    LET all == StorageGetAll(store)
    IN [i \in 1..Len(all) |-> QuestionFromJSON(all[i])]

QuestionSave(store, q) == StorageSave(store, q.id, QuestionToJSON(q))

\* the version test of sync with >= for >
NeedsWriteOrEqual(localMap, remoteQuestion) ==
    \/ remoteQuestion.id \notin DOMAIN localMap
    \/ remoteQuestion.version >= localMap[remoteQuestion.id].version

NeedsWrite(localMap, remoteQuestion) ==
    \/ remoteQuestion.id \notin DOMAIN localMap
    \/ remoteQuestion.version > localMap[remoteQuestion.id].version

RECURSIVE SyncLoop(_, _, _, _)
\* the for loop of Question.sync: localMap is the snapshot taken before the
\* loop, store the object store as written so far
SyncLoop(localMap, store, remoteQuestions, i) ==
    IF i > Len(remoteQuestions) THEN store
    ELSE LET r == remoteQuestions[i] IN
         SyncLoop(localMap,
                  IF NeedsWrite(localMap, r)
                  THEN QuestionSave(store, QuestionFromJSON(r))
                  ELSE store,
                  remoteQuestions, i + 1)

\* the snapshot of the bank sync takes before its loop: new Map(
\* localQuestions.map(q => [q.id, q]))
LocalQuestionsMap(store) ==
    LET localQuestions == QuestionGetAll(store)
    IN [id \in {localQuestions[i].id : i \in 1..Len(localQuestions)} |->
           LET i == CHOOSE j \in 1..Len(localQuestions) :
                        localQuestions[j].id = id
           IN localQuestions[i]]

RECURSIVE SaveAll(_, _, _)
\* for (const question of remoteQuestions) await Question.fromJSON(question).save()
SaveAll(store, remoteQuestions, i) ==
    IF i > Len(remoteQuestions) THEN store
    ELSE SaveAll(QuestionSave(store, QuestionFromJSON(remoteQuestions[i])),
                 remoteQuestions, i + 1)

\* sync that clears the bank before it writes the remote questions
QuestionSyncReplacing(store, remoteQuestions) ==
    SaveAll(EmptyStore, remoteQuestions, 1)

\* the object store after Question.sync(remoteQuestions)
QuestionSync(store, remoteQuestions) ==
    LET localQuestions == QuestionGetAll(store)
        localMap == [id \in {localQuestions[i].id : i \in 1..Len(localQuestions)} |->
                        LET i == CHOOSE j \in 1..Len(localQuestions) :
                                     localQuestions[j].id = id
                        IN localQuestions[i]]
    IN SyncLoop(localMap, store, remoteQuestions, 1)

\* the number of put requests Question.sync(remoteQuestions) issues
SyncWrites(store, remoteQuestions) ==
    LET localMap == LocalQuestionsMap(store)
    IN Cardinality({i \in 1..Len(remoteQuestions) :
                       NeedsWrite(localMap, remoteQuestions[i])})

\* the object store after Question.forceRefresh(remoteQuestions): clear,
\* then save every remote question
QuestionForceRefresh(store, remoteQuestions) ==
    SaveAll(EmptyStore, remoteQuestions, 1)

(***************************************************************************)
(* UserAnswer and the answer log.                                          *)
(***************************************************************************)
\* new UserAnswer({questionId, answer, isCorrect, grade, nextHint,
\* fullEvaluation, confidenceScore}) with submittedAt defaulting to now
NewUserAnswer(questionId, answer, isCorrect, grade, nextHint, fullEvaluation, confidenceScore, submittedAt) ==
    [questionId |-> questionId, answer |-> answer, isCorrect |-> isCorrect,
     grade |-> grade, nextHint |-> nextHint,
     fullEvaluation |-> fullEvaluation,
     confidenceScore |-> confidenceScore, submittedAt |-> submittedAt]

UserAnswerToJSON(ua) ==
    [questionId |-> ua.questionId, answer |-> ua.answer,
     isCorrect |-> ua.isCorrect, grade |-> ua.grade,
     nextHint |-> ua.nextHint, fullEvaluation |-> ua.fullEvaluation,
     confidenceScore |-> ua.confidenceScore, submittedAt |-> ua.submittedAt]

UserAnswerFromJSON(json) ==
    NewUserAnswer(json.questionId, json.answer, json.isCorrect, json.grade,
                  json.nextHint, json.fullEvaluation, json.confidenceScore,
                  json.submittedAt)

\* save() that writes a history holding only the new answer
UserAnswerSaveOverwrite(store, ua) ==
    StorageSave(store, ua.questionId,
                [questionId |-> ua.questionId,
                 answers |-> <<UserAnswerToJSON(ua)>>])

\* the 'userAnswers' object store after ua.save(): read the record of the
\* question (or start an empty history), push, write the record back
UserAnswerSave(store, ua) ==
    LET found == StorageGetById(store, ua.questionId)
        existingAnswers == IF found # Undefined THEN found
                           ELSE [questionId |-> ua.questionId, answers |-> <<>>]
    IN StorageSave(store, ua.questionId,
                   [questionId |-> existingAnswers.questionId,
                    answers |-> Append(existingAnswers.answers,
                                       UserAnswerToJSON(ua))])

RECURSIVE FlatMapAnswers(_, _)
FlatMapAnswers(records, i) ==
    IF i > Len(records) THEN <<>>
    ELSE [j \in 1..Len(records[i].answers) |->
              UserAnswerFromJSON(records[i].answers[j])]
         \o FlatMapAnswers(records, i + 1)

\* UserAnswer.getAll(): every stored answer, histories concatenated in key
\* order
UserAnswerGetAll(store) == FlatMapAnswers(StorageGetAll(store), 1)

(***************************************************************************)
(* Evaluation.                                                             *)
(***************************************************************************)
\* the objective branch comparing the untrimmed answer
CheckObjectiveNoTrim(question, userAnswerText) ==
    [k |-> "object",
     isCorrect |-> JSBool(ToLowerCase(userAnswerText)
                            = ToLowerCase(question.expectedAnswer)),
     confidenceScore |-> JSNum(1, 1)]

\* the objective branch of checkAnswer
CheckObjective(question, userAnswerText) ==
    [k |-> "object",
     isCorrect |-> JSBool(ToLowerCase(Trim(userAnswerText))
                            = ToLowerCase(question.expectedAnswer)),
     confidenceScore |-> JSNum(1, 1)]

\* returns the primitive false for an over-long answer, an object otherwise
LocalEvaluateSubjectiveAnswer(question, userAnswer) ==
    LET keywords == question.keywords
        minKeywords == IF question.minKeywords # 0
                       THEN question.minKeywords ELSE 1
        tooLong == question.maxLength # 0
                   /\ Len(userAnswer) > question.maxLength
        matchedKeywords == Filter(keywords, ToLowerCase(userAnswer), 1)
    IN IF tooLong THEN JSBool(FALSE)
       ELSE [k |-> "object",
             isCorrect |-> JSBool(Len(matchedKeywords) >= minKeywords),
             confidenceScore |-> JSNum(Len(matchedKeywords),
                                       2 * Len(keywords))]

\* a failed call graded incorrect without consulting the heuristic
EvaluateSubjectiveAnswerNoFallback(question, userAnswer, response) ==
    IF response.kind = "ok"
    THEN [k |-> "object",
          isCorrect |-> response.body.isCorrect,
          grade |-> response.body.grade,
          nextHint |-> response.body.nextHint,
          fullEvaluation |-> response.body.fullEvaluation]
    ELSE [k |-> "object", isCorrect |-> JSBool(FALSE),
          confidenceScore |-> JSNum(0, 1)]

\* response of the evaluation endpoint: the fetch rejects ("error"), the
\* status is not ok ("notok"), or a JSON body arrives ("ok")
EvaluateSubjectiveAnswer(question, userAnswer, response) ==
    IF response.kind = "ok"
    THEN [k |-> "object",
          isCorrect |-> response.body.isCorrect,
          grade |-> response.body.grade,
          nextHint |-> response.body.nextHint,
          fullEvaluation |-> response.body.fullEvaluation]
    ELSE LocalEvaluateSubjectiveAnswer(question, userAnswer)

CheckAnswer(question, userAnswerText, response) ==
    IF question.type = "objective"
    THEN CheckObjective(question, userAnswerText)
    ELSE IF question.type = "subjective"
    THEN EvaluateSubjectiveAnswer(question, userAnswerText, response)
    ELSE [k |-> "object", isCorrect |-> JSBool(FALSE),
          confidenceScore |-> JSNum(0, 1)]

(***************************************************************************)
(* The localStorage item 'hintCount': null when never set, else the        *)
(* decimal string written by setItem.                                      *)
(***************************************************************************)
DigitChar(d) ==
    CASE d = 0 -> "0" [] d = 1 -> "1" [] d = 2 -> "2" [] d = 3 -> "3"
      [] d = 4 -> "4" [] d = 5 -> "5" [] d = 6 -> "6" [] d = 7 -> "7"
      [] d = 8 -> "8" [] d = 9 -> "9"

DigitValue(c) == CHOOSE d \in 0..9 : DigitChar(d) = c

RECURSIVE NumberToString(_)
NumberToString(n) ==
    IF n < 10 THEN <<DigitChar(n)>>
    ELSE NumberToString(n \div 10) \o <<DigitChar(n % 10)>>

RECURSIVE DigitsValue(_)
DigitsValue(s) ==
    IF s = <<>> THEN 0
    ELSE 10 * DigitsValue(SubSeq(s, 1, Len(s) - 1)) + DigitValue(s[Len(s)])

\* parseInt(localStorage.getItem('hintCount')) || 0
ParseHintCount(item) ==
    LET parsed == IF item = Null THEN NaN ELSE JSNum(DigitsValue(item.s), 1)
    IN IF Truthy(parsed) THEN parsed.p ELSE 0

(***************************************************************************)
(* State.                                                                  *)
(***************************************************************************)
VARIABLES
    questionStore,          \* IndexedDB object store 'questions', by id
    answerStore,            \* IndexedDB object store 'userAnswers', by questionId
    localHintCount,         \* localStorage item 'hintCount'
    questions,              \* Quiz.questions
    userAnswers,            \* Quiz.userAnswers: Map questionId -> array
    currentQuestionIndex,   \* Quiz.currentQuestionIndex, 0-based
    hintCount,              \* Quiz.hintCount
    isCompleted,            \* Quiz.isCompleted
    status,                 \* "new", "ready" (init resolved), "failed" (init rejected)
    clock,                  \* the time new Date() reads at the next submission
    inflight,               \* submitAnswer calls whose save() has not written yet
    restarting,             \* a restart() is between its clearAll() and its resets
    last                    \* the last call: method, arguments, outcome

vars == <<questionStore, answerStore, localHintCount, questions, userAnswers,
          currentQuestionIndex, hintCount, isCompleted, status, clock, inflight,
          restarting, last>>

\* what the last call saw before it ran
Pre ==
    [answered |-> Cardinality(DOMAIN userAnswers),
     total |-> Len(questions),
     index |-> currentQuestionIndex,
     hintCount |-> hintCount,
     isCompleted |-> isCompleted]

NoCalls == [target |-> 0, checks |-> 0, remote |-> 0, local |-> 0]

Call(op, args, threw, ret, calls) ==
    [op |-> op, args |-> args, threw |-> threw, ret |-> ret, calls |-> calls,
     pre |-> Pre]

(***************************************************************************)
(* Quiz: reads.                                                            *)
(***************************************************************************)
\* this.questions[index]
QuestionAt(qs, index) ==
    IF index >= 0 /\ index < Len(qs) THEN qs[index + 1] ELSE Undefined

GetCurrentQuestion == QuestionAt(questions, currentQuestionIndex)

\* this.questions.find(q => q.id === questionId)
FindQuestion(qs, id) ==
    IF \E i \in 1..Len(qs) : qs[i].id = id
    THEN qs[CHOOSE i \in 1..Len(qs) :
                /\ qs[i].id = id
                /\ \A j \in 1..(i - 1) : qs[j].id # id]
    ELSE Undefined

\* questionId ? find(...) : getCurrentQuestion()
ResolveQuestion(qs, index, questionId) ==
    IF Truthy(questionId) THEN FindQuestion(qs, questionId.p)
    ELSE QuestionAt(qs, index)

\* the bound of hasNextQuestion off by one
HasNextQuestionOffByOne(index, qs) == index < Len(qs)

HasNextQuestion(index, qs) == index < Len(qs) - 1

GetLatestUserAnswer(map, questionId) ==
    IF questionId \in DOMAIN map /\ Len(map[questionId]) > 0
    THEN map[questionId][Len(map[questionId])]
    ELSE Null

RECURSIVE InsertById(_, _)
InsertById(sorted, item) ==
    IF sorted = <<>> THEN <<item>>
    ELSE IF item.id < Head(sorted).id THEN <<item>> \o sorted
    ELSE <<Head(sorted)>> \o InsertById(Tail(sorted), item)

RECURSIVE AnsweredFirstFrom(_, _, _)
AnsweredFirstFrom(qs, map, i) ==
    IF i > Len(qs) THEN <<>>
    ELSE LET rest == AnsweredFirstFrom(qs, map, i + 1)
             id == qs[i].id
         IN IF id \in DOMAIN map
            THEN InsertById(rest, [id |-> id,
                                   userAnswer |-> map[id][1].answer,
                                   isCorrect |-> map[id][1].isCorrect])
            ELSE rest

\* getAnsweredQuestions joining the first answer of each question
GetAnsweredQuestionsFirst(qs, map) == AnsweredFirstFrom(qs, map, 1)

RECURSIVE AnsweredFrom(_, _, _)
AnsweredFrom(qs, map, i) ==
    IF i > Len(qs) THEN <<>>
    ELSE LET rest == AnsweredFrom(qs, map, i + 1)
             id == qs[i].id
         IN IF id \in DOMAIN map
            THEN InsertById(rest, [id |-> id,
                                   userAnswer |-> map[id][Len(map[id])].answer,
                                   isCorrect |-> map[id][Len(map[id])].isCorrect])
            ELSE rest

\* filter to the answered questions, join the latest answer, sort by id
GetAnsweredQuestions(qs, map) == AnsweredFrom(qs, map, 1)

\* findIndex(q => !this.userAnswers.has(q.id)), -1 when there is none
FindFirstUnanswered(qs, map) ==
    IF \E i \in 1..Len(qs) : qs[i].id \notin DOMAIN map
    THEN (CHOOSE i \in 1..Len(qs) :
            /\ qs[i].id \notin DOMAIN map
            /\ \A j \in 1..(i - 1) : qs[j].id \in DOMAIN map) - 1
    ELSE -1

RECURSIVE Hydrate(_, _, _)
\* savedAnswers.forEach: push every saved answer on its question's array
Hydrate(map, savedAnswers, i) ==
    IF i > Len(savedAnswers) THEN map
    ELSE LET a == savedAnswers[i]
             old == IF a.questionId \in DOMAIN map
                    THEN map[a.questionId] ELSE <<>>
         IN Hydrate(StorageSave(map, a.questionId, Append(old, a)),
                    savedAnswers, i + 1)

\* currentQuestionIndex after loadQuestions
LoadCursor(qs, map) ==
    IF FindFirstUnanswered(qs, map) = -1 THEN Len(qs)
    ELSE FindFirstUnanswered(qs, map)

\* init that keeps the cursor loadQuestions computed
InitCursorAsLoaded(qs, map) == LoadCursor(qs, map)

\* currentQuestionIndex after init has repositioned it on the answered
\* questions
InitCursor(qs, map) ==
    LET answeredQuestions == GetAnsweredQuestions(qs, map)
        lastAnswered == Len(answeredQuestions) - 1
    IN IF Len(answeredQuestions) > 0
       THEN IF /\ Truthy(answeredQuestions[lastAnswered + 1].isCorrect)
               /\ HasNextQuestion(lastAnswered, qs)
            THEN lastAnswered + 1
            ELSE lastAnswered
       ELSE LoadCursor(qs, map)

\* checkQuizCompletion reads this.questions[length - 1].id, a TypeError on
\* an empty list
CheckQuizCompletionThrows(index, qs) ==
    index >= Len(qs) - 1 /\ Len(qs) = 0

\* checkQuizCompletion that asks for an answer to every question
CheckQuizCompletionAllAnswered(index, qs, map) ==
    \A i \in 1..Len(qs) : qs[i].id \in DOMAIN map

CheckQuizCompletion(index, qs, map) ==
    index >= Len(qs) - 1 /\ qs[Len(qs)].id \in DOMAIN map

(***************************************************************************)
(* Quiz: methods.                                                          *)
(***************************************************************************)
\* new Quiz(): a page load
Construct ==
    /\ questions' = <<>>
    /\ userAnswers' = EmptyStore
    /\ currentQuestionIndex' = 0
    /\ hintCount' = ParseHintCount(localHintCount)
    /\ isCompleted' = FALSE
    /\ status' = "new"
    /\ last' = Call("constructor", <<>>, "none", Undefined, NoCalls)
    /\ UNCHANGED <<questionStore, answerStore, localHintCount, clock, inflight,
                   restarting>>

\* init(), with loadQuestions(); response is what fetch('data/questions.json')
\* yields: a rejection ("error"), a status that is not ok ("notok") or a
\* JSON list ("ok")
RunInit(response) ==
    /\ LET synced == IF response.kind = "ok"
                     THEN QuestionSync(questionStore, response.body)
                     ELSE questionStore
           qs == QuestionGetAll(synced)
           map == Hydrate(userAnswers, UserAnswerGetAll(answerStore), 1)
           index == InitCursor(qs, map)
           throws == CheckQuizCompletionThrows(index, qs)
       IN /\ questionStore' = synced
          /\ questions' = qs
          /\ userAnswers' = map
          /\ currentQuestionIndex' = index
          /\ isCompleted' = IF throws THEN isCompleted
                            ELSE CheckQuizCompletion(index, qs, map)
          /\ status' = IF throws THEN "failed" ELSE "ready"
          /\ last' = Call("init", [fetch |-> response],
                          IF throws THEN "TypeError" ELSE "none",
                          IF throws THEN Undefined
                          ELSE [k |-> "object",
                                answered |-> GetAnsweredQuestions(qs, map)],
                          [NoCalls EXCEPT !.remote = 1])
    /\ UNCHANGED <<answerStore, localHintCount, hintCount, clock, inflight,
                   restarting>>

\* the init() a page load runs on the Quiz object it has just constructed
QuizInit(response) ==
    /\ status = "new"
    /\ RunInit(response)

\* init() called on a Quiz object that init() has already run on
QuizInitAgain(response) ==
    /\ status # "new"
    /\ RunInit(response)

\* restart() that leaves the stored hint count as it is
RestartKeepsStoredHints(clearOk) ==
    IF clearOk
    THEN /\ answerStore' = EmptyStore
         /\ userAnswers' = EmptyStore
         /\ currentQuestionIndex' = 0
         /\ hintCount' = 0
         /\ isCompleted' = FALSE
         /\ last' = Call("restart", [clearOk |-> clearOk], "none", Undefined,
                         NoCalls)
         /\ UNCHANGED <<questionStore, localHintCount, questions, status, clock,
                        inflight, restarting>>
    ELSE /\ last' = Call("restart", [clearOk |-> clearOk], "StorageError",
                         Undefined, NoCalls)
         /\ UNCHANGED <<questionStore, answerStore, localHintCount, questions,
                        userAnswers, currentQuestionIndex, hintCount,
                        isCompleted, status, clock, inflight, restarting>>

\* restart() that resets the session before it clears the store
RestartResetsFirst(clearOk) ==
    /\ userAnswers' = EmptyStore
    /\ currentQuestionIndex' = 0
    /\ hintCount' = 0
    /\ isCompleted' = FALSE
    /\ localHintCount' = JSStr(NumberToString(0))
    /\ answerStore' = IF clearOk THEN EmptyStore ELSE answerStore
    /\ last' = Call("restart", [clearOk |-> clearOk],
                    IF clearOk THEN "none" ELSE "StorageError", Undefined,
                    NoCalls)
    /\ UNCHANGED <<questionStore, questions, status, clock, inflight,
                   restarting>>

\* restart(); clearOk: whether UserAnswer.clearAll() succeeds
Restart(clearOk) ==
    IF clearOk
    THEN /\ answerStore' = EmptyStore
         /\ userAnswers' = EmptyStore
         /\ currentQuestionIndex' = 0
         /\ hintCount' = 0
         /\ isCompleted' = FALSE
         /\ localHintCount' = JSStr(NumberToString(0))
         /\ last' = Call("restart", [clearOk |-> clearOk], "none", Undefined,
                         NoCalls)
         /\ UNCHANGED <<questionStore, questions, status, clock, inflight,
                        restarting>>
    ELSE /\ last' = Call("restart", [clearOk |-> clearOk], "StorageError",
                         Undefined, NoCalls)
         /\ UNCHANGED <<questionStore, answerStore, localHintCount, questions,
                        userAnswers, currentQuestionIndex, hintCount,
                        isCompleted, status, clock, inflight, restarting>>

(***************************************************************************)
(* restart() as the two steps another call can fall between: the clear     *)
(* transaction of UserAnswer.clearAll(), and the resets that run once the  *)
(* await has resumed.  Restart(TRUE) above is the two run back to back.    *)
(***************************************************************************)
RestartClear ==
    /\ ~restarting
    /\ answerStore' = EmptyStore
    /\ restarting' = TRUE
    /\ UNCHANGED <<questionStore, localHintCount, questions, userAnswers,
                   currentQuestionIndex, hintCount, isCompleted, status, clock,
                   inflight, last>>

RestartFinish ==
    /\ restarting
    /\ userAnswers' = EmptyStore
    /\ currentQuestionIndex' = 0
    /\ hintCount' = 0
    /\ isCompleted' = FALSE
    /\ localHintCount' = JSStr(NumberToString(0))
    /\ restarting' = FALSE
    /\ last' = Call("restart", [clearOk |-> TRUE], "none", Undefined, NoCalls)
    /\ UNCHANGED <<questionStore, answerStore, questions, status, clock,
                   inflight>>

NoResponse == [kind |-> "none"]

\* submitAnswer that lets a failed save reject the call
SubmitAnswerSaveFatal(userAnswerText, questionId, response, saveOk) ==
    LET question == ResolveQuestion(questions, currentQuestionIndex, questionId)
        args == [text |-> userAnswerText, questionId |-> questionId,
                 response |-> response, saveOk |-> saveOk]
    IN IF question = Undefined
       THEN /\ response = NoResponse
            /\ saveOk
            /\ last' = Call("submitAnswer", args, "Question not found",
                            Undefined, NoCalls)
            /\ UNCHANGED <<questionStore, answerStore, localHintCount,
                           questions, userAnswers, currentQuestionIndex,
                           hintCount, isCompleted, status, clock, inflight,
                           restarting>>
       ELSE /\ (response = NoResponse) <=> (question.type # "subjective")
            /\ LET evaluation == CheckAnswer(question, userAnswerText, response)
                   isCorrect == Prop(evaluation, "isCorrect")
                   grade == Prop(evaluation, "grade")
                   nextHint == Prop(evaluation, "nextHint")
                   fullEvaluation == Prop(evaluation, "fullEvaluation")
                   confidenceScore == Prop(evaluation, "confidenceScore")
                   newAnswer == NewUserAnswer(question.id, userAnswerText,
                                              isCorrect, grade, nextHint,
                                              fullEvaluation, confidenceScore,
                                              clock)
                   history == IF question.id \in DOMAIN userAnswers
                              THEN userAnswers[question.id] ELSE <<>>
               IN /\ userAnswers' = StorageSave(userAnswers, question.id,
                                                Append(history, newAnswer))
                  /\ answerStore' = IF saveOk
                                    THEN UserAnswerSave(answerStore, newAnswer)
                                    ELSE answerStore
                  /\ last' = Call("submitAnswer", args,
                                  IF saveOk THEN "none" ELSE "StorageError",
                                  IF saveOk
                                  THEN [k |-> "object", isCorrect |-> isCorrect,
                                        grade |-> grade, nextHint |-> nextHint,
                                        fullEvaluation |-> fullEvaluation,
                                        confidenceScore |-> confidenceScore]
                                  ELSE Undefined,
                                  [target |-> question.id,
                                   checks |-> 1,
                                   remote |-> IF question.type = "subjective"
                                              THEN 1 ELSE 0,
                                   local |-> IF question.type = "subjective"
                                                /\ response.kind # "ok"
                                             THEN 1 ELSE 0])
            /\ clock' = clock + 1
            /\ UNCHANGED <<questionStore, localHintCount, questions,
                           currentQuestionIndex, hintCount, isCompleted, status,
                           inflight, restarting>>

\* evaluateSubjectiveAnswer with a second request after a failed one
EvaluationCallsRetrying(question, response) ==
    [target |-> question.id,
     checks |-> 1,
     remote |-> IF question.type # "subjective" THEN 0
                ELSE IF response.kind = "ok" THEN 1 ELSE 2,
     local |-> IF question.type = "subjective" /\ response.kind # "ok"
               THEN 1 ELSE 0]

\* what one submitAnswer call runs to evaluate the answer: checkAnswer once;
\* for a subjective question one POST /api/evaluate and, in its catch block,
\* the local heuristic once; for an objective question neither
EvaluationCalls(question, response) ==
    [target |-> question.id,
     checks |-> 1,
     remote |-> IF question.type = "subjective" THEN 1 ELSE 0,
     local |-> IF question.type = "subjective" /\ response.kind # "ok"
               THEN 1 ELSE 0]

\* submitAnswer(userAnswerText, questionId); response: what the evaluation
\* endpoint yields if it is called; saveOk: whether newAnswer.save() succeeds
SubmitAnswer(userAnswerText, questionId, response, saveOk) ==
    LET question == ResolveQuestion(questions, currentQuestionIndex, questionId)
        args == [text |-> userAnswerText, questionId |-> questionId,
                 response |-> response, saveOk |-> saveOk]
    IN IF question = Undefined
       THEN /\ response = NoResponse
            /\ saveOk
            /\ last' = Call("submitAnswer", args, "Question not found",
                            Undefined, NoCalls)
            /\ UNCHANGED <<questionStore, answerStore, localHintCount,
                           questions, userAnswers, currentQuestionIndex,
                           hintCount, isCompleted, status, clock, inflight,
                           restarting>>
       ELSE /\ (response = NoResponse) <=> (question.type # "subjective")
            /\ LET evaluation == CheckAnswer(question, userAnswerText, response)
                   isCorrect == Prop(evaluation, "isCorrect")
                   grade == Prop(evaluation, "grade")
                   nextHint == Prop(evaluation, "nextHint")
                   fullEvaluation == Prop(evaluation, "fullEvaluation")
                   confidenceScore == Prop(evaluation, "confidenceScore")
                   newAnswer == NewUserAnswer(question.id, userAnswerText,
                                              isCorrect, grade, nextHint,
                                              fullEvaluation, confidenceScore,
                                              clock)
                   history == IF question.id \in DOMAIN userAnswers
                              THEN userAnswers[question.id] ELSE <<>>
               IN /\ userAnswers' = StorageSave(userAnswers, question.id,
                                                Append(history, newAnswer))
                  /\ answerStore' = IF saveOk
                                    THEN UserAnswerSave(answerStore, newAnswer)
                                    ELSE answerStore
                  /\ last' = Call("submitAnswer", args, "none",
                                  [k |-> "object", isCorrect |-> isCorrect,
                                   grade |-> grade, nextHint |-> nextHint,
                                   fullEvaluation |-> fullEvaluation,
                                   confidenceScore |-> confidenceScore],
                                  EvaluationCalls(question, response))
            /\ clock' = clock + 1
            /\ UNCHANGED <<questionStore, localHintCount, questions,
                           currentQuestionIndex, hintCount, isCompleted, status,
                           inflight, restarting>>

(***************************************************************************)
(* submitAnswer as the steps the event loop can interleave with the steps  *)
(* of another call: everything up to the call of newAnswer.save(), the     *)
(* read transaction of save(), and its write transaction, after which the  *)
(* call returns.  SubmitAnswer above is the three steps run back to back.  *)
(***************************************************************************)
\* up to newAnswer.save(): resolve the question, evaluate, push the new
\* answer on the in-memory history
SubmitStart(userAnswerText, questionId, response) ==
    LET question == ResolveQuestion(questions, currentQuestionIndex, questionId)
        args == [text |-> userAnswerText, questionId |-> questionId,
                 response |-> response, saveOk |-> TRUE]
    IN /\ question # Undefined
       /\ (response = NoResponse) <=> (question.type # "subjective")
       /\ LET evaluation == CheckAnswer(question, userAnswerText, response)
              isCorrect == Prop(evaluation, "isCorrect")
              grade == Prop(evaluation, "grade")
              nextHint == Prop(evaluation, "nextHint")
              fullEvaluation == Prop(evaluation, "fullEvaluation")
              confidenceScore == Prop(evaluation, "confidenceScore")
              newAnswer == NewUserAnswer(question.id, userAnswerText,
                                         isCorrect, grade, nextHint,
                                         fullEvaluation, confidenceScore,
                                         clock)
              history == IF question.id \in DOMAIN userAnswers
                         THEN userAnswers[question.id] ELSE <<>>
          IN /\ userAnswers' = StorageSave(userAnswers, question.id,
                                           Append(history, newAnswer))
             /\ inflight' = StorageSave(inflight, clock,
                               [newAnswer |-> newAnswer,
                                existingAnswers |-> Undefined,
                                args |-> args,
                                ret |-> [k |-> "object", isCorrect |-> isCorrect,
                                         grade |-> grade, nextHint |-> nextHint,
                                         fullEvaluation |-> fullEvaluation,
                                         confidenceScore |-> confidenceScore],
                                calls |-> EvaluationCalls(question, response)])
       /\ clock' = clock + 1
       /\ UNCHANGED <<questionStore, answerStore, localHintCount, questions,
                      currentQuestionIndex, hintCount, isCompleted, status,
                      last, restarting>>

\* save(), first transaction: existingAnswers = the stored record of the
\* question, or a record with an empty history
SaveRead(call) ==
    /\ call \in DOMAIN inflight
    /\ inflight[call].existingAnswers = Undefined
    /\ LET ua == inflight[call].newAnswer
           found == StorageGetById(answerStore, ua.questionId)
       IN inflight' = [inflight EXCEPT ![call].existingAnswers =
                          IF found # Undefined THEN found
                          ELSE [questionId |-> ua.questionId, answers |-> <<>>]]
    /\ UNCHANGED <<questionStore, answerStore, localHintCount, questions,
                   userAnswers, currentQuestionIndex, hintCount, isCompleted,
                   status, clock, last, restarting>>

\* a write step that appends to the history the store holds at the time of
\* the write
SaveWriteAppending(call) ==
    /\ call \in DOMAIN inflight
    /\ inflight[call].existingAnswers # Undefined
    /\ answerStore' = UserAnswerSave(answerStore, inflight[call].newAnswer)
    /\ inflight' = [c \in DOMAIN inflight \ {call} |-> inflight[c]]
    /\ last' = Call("submitAnswer", inflight[call].args, "none",
                    inflight[call].ret, inflight[call].calls)
    /\ UNCHANGED <<questionStore, localHintCount, questions, userAnswers,
                   currentQuestionIndex, hintCount, isCompleted, status, clock,
                   restarting>>

\* save(), second transaction: push the new answer on the record read and
\* put the record; submitAnswer then returns the evaluation
SaveWrite(call) ==
    /\ call \in DOMAIN inflight
    /\ inflight[call].existingAnswers # Undefined
    /\ LET ua == inflight[call].newAnswer
           existingAnswers == inflight[call].existingAnswers
       IN answerStore' = StorageSave(answerStore, ua.questionId,
                            [questionId |-> existingAnswers.questionId,
                             answers |-> Append(existingAnswers.answers,
                                                UserAnswerToJSON(ua))])
    /\ inflight' = [c \in DOMAIN inflight \ {call} |-> inflight[c]]
    /\ last' = Call("submitAnswer", inflight[call].args, "none",
                    inflight[call].ret, inflight[call].calls)
    /\ UNCHANGED <<questionStore, localHintCount, questions, userAnswers,
                   currentQuestionIndex, hintCount, isCompleted, status, clock,
                   restarting>>

\* moveToNextQuestion() that sets the completion flag when there is no next
\* question
MoveToNextQuestionCompleting ==
    /\ currentQuestionIndex' =
          IF HasNextQuestion(currentQuestionIndex, questions)
          THEN currentQuestionIndex + 1 ELSE currentQuestionIndex
    /\ isCompleted' =
          IF HasNextQuestion(currentQuestionIndex, questions) \/ questions = <<>>
          THEN isCompleted
          ELSE CheckQuizCompletion(currentQuestionIndex, questions, userAnswers)
    /\ last' = Call("moveToNextQuestion", <<>>, "none",
                    JSBool(HasNextQuestion(currentQuestionIndex, questions)),
                    NoCalls)
    /\ UNCHANGED <<questionStore, answerStore, localHintCount, questions,
                   userAnswers, hintCount, status, clock, inflight, restarting>>

MoveToNextQuestion ==
    /\ currentQuestionIndex' =
          IF HasNextQuestion(currentQuestionIndex, questions)
          THEN currentQuestionIndex + 1 ELSE currentQuestionIndex
    /\ last' = Call("moveToNextQuestion", <<>>, "none",
                    JSBool(HasNextQuestion(currentQuestionIndex, questions)),
                    NoCalls)
    /\ UNCHANGED <<questionStore, answerStore, localHintCount, questions,
                   userAnswers, hintCount, isCompleted, status, clock,
                   inflight, restarting>>

\* incrementHintCount() that leaves localStorage alone
IncrementHintCountNoPersist ==
    /\ hintCount' = hintCount + 1
    /\ last' = Call("incrementHintCount", <<>>, "none",
                    JSNum(hintCount + 1, 1), NoCalls)
    /\ UNCHANGED <<questionStore, answerStore, localHintCount, questions,
                   userAnswers, currentQuestionIndex, isCompleted, status,
                   clock, inflight, restarting>>

IncrementHintCount ==
    /\ hintCount' = hintCount + 1
    /\ localHintCount' = JSStr(NumberToString(hintCount + 1))
    /\ last' = Call("incrementHintCount", <<>>, "none",
                    JSNum(hintCount + 1, 1), NoCalls)
    /\ UNCHANGED <<questionStore, answerStore, questions, userAnswers,
                   currentQuestionIndex, isCompleted, status, clock, inflight,
                   restarting>>

\* completeQuiz() that completes only once the cursor is on the last
\* question
CompleteQuizAtEnd ==
    /\ isCompleted' = (currentQuestionIndex >= Len(questions) - 1)
    /\ last' = Call("completeQuiz", <<>>, "none", Undefined, NoCalls)
    /\ UNCHANGED <<questionStore, answerStore, localHintCount, questions,
                   userAnswers, currentQuestionIndex, hintCount, status, clock,
                   inflight, restarting>>

CompleteQuiz ==
    /\ isCompleted' = TRUE
    /\ last' = Call("completeQuiz", <<>>, "none", Undefined, NoCalls)
    /\ UNCHANGED <<questionStore, answerStore, localHintCount, questions,
                   userAnswers, currentQuestionIndex, hintCount, status, clock,
                   inflight, restarting>>

\* Question.sync(remoteQuestions) called on its own
SyncCall(remoteQuestions) ==
    LET synced == QuestionSync(questionStore, remoteQuestions) IN
    /\ questionStore' = synced
    /\ last' = [Call("sync", [remote |-> remoteQuestions], "none",
                      QuestionGetAll(synced),
                      [writes |-> SyncWrites(questionStore, remoteQuestions)])
                    EXCEPT !.pre = [store |-> questionStore]]
    /\ UNCHANGED <<answerStore, localHintCount, questions, userAnswers,
                   currentQuestionIndex, hintCount, isCompleted, status, clock,
                   inflight, restarting>>

\* Question.forceRefresh(remoteQuestions) called on its own
ForceRefreshCall(remoteQuestions) ==
    LET refreshed == QuestionForceRefresh(questionStore, remoteQuestions) IN
    /\ questionStore' = refreshed
    /\ last' = [Call("forceRefresh", [remote |-> remoteQuestions], "none",
                      QuestionGetAll(refreshed),
                      [writes |-> Len(remoteQuestions)])
                    EXCEPT !.pre = [store |-> questionStore]]
    /\ UNCHANGED <<answerStore, localHintCount, questions, userAnswers,
                   currentQuestionIndex, hintCount, isCompleted, status, clock,
                   inflight, restarting>>

\* Object.assign(question, updates); question.version++
AssignAndBump(question, updates) ==
    LET assigned == [f \in DOMAIN question |->
                        IF f \in DOMAIN updates THEN updates[f] ELSE question[f]]
    IN [assigned EXCEPT !.version = assigned.version + 1]

\* updateQuestion(questionId, updates); saveOk: whether question.save()
\* succeeds.  The question object of the list is changed in place before the
\* save is awaited.
UpdateQuestion(questionId, updates, saveOk) ==
    LET question == FindQuestion(questions, questionId)
        args == [questionId |-> questionId, updates |-> updates,
                 saveOk |-> saveOk]
    IN IF question = Undefined
       THEN /\ saveOk
            /\ last' = Call("updateQuestion", args, "none", Undefined, NoCalls)
            /\ UNCHANGED <<questionStore, answerStore, localHintCount,
                           questions, userAnswers, currentQuestionIndex,
                           hintCount, isCompleted, status, clock, inflight,
                           restarting>>
       ELSE LET updated == AssignAndBump(question, updates) IN
            /\ questions' = [i \in 1..Len(questions) |->
                                IF questions[i] = question THEN updated
                                ELSE questions[i]]
            /\ questionStore' = IF saveOk
                                THEN QuestionSave(questionStore, updated)
                                ELSE questionStore
            /\ last' = Call("updateQuestion", args,
                            IF saveOk THEN "none" ELSE "StorageError",
                            Undefined, NoCalls)
            /\ UNCHANGED <<answerStore, localHintCount, userAnswers,
                           currentQuestionIndex, hintCount, isCompleted,
                           status, clock, inflight, restarting>>

(***************************************************************************)
(* Scoring.  Numbers are exact fractions; every score the bank sizes of   *)
(* the model can produce is far from a rounding boundary.                  *)
(***************************************************************************)
NumAdd(a, b) == JSNum(a.p * b.q + b.p * a.q, a.q * b.q)

NumSub(a, b) == JSNum(a.p * b.q - b.p * a.q, a.q * b.q)

NumLeq(a, b) == a.p * b.q <= b.p * a.q

\* Math.min, Math.max
MathMin(a, b) == IF NumLeq(a, b) THEN a ELSE b

MathMax(a, b) == IF NumLeq(a, b) THEN b ELSE a

\* Math.round: the nearest integer, a half rounding up
MathRound(a) == (2 * a.p + a.q) \div (2 * a.q)

\* what the forEach of getQuizProgress adds for one question: its score,
\* 1 to maxPossibleScore, and 1 to correctAnswers if the latest answer is
\* correct.  A grade is a number only when the endpoint supplied one.
ScoreOne(acc, latestUserAnswer) ==
    IF latestUserAnswer # Null
    THEN LET grade == IF latestUserAnswer.grade.k = "number"
                      THEN latestUserAnswer.grade
                      ELSE IF Truthy(latestUserAnswer.isCorrect)
                           THEN JSNum(10, 1) ELSE JSNum(0, 1)
             questionScore == MathMax(JSNum(0, 1), JSNum(grade.p, grade.q * 10))
         IN [totalScore |-> NumAdd(acc.totalScore, questionScore),
             maxPossibleScore |-> acc.maxPossibleScore + 1,
             correctAnswers |-> IF Truthy(latestUserAnswer.isCorrect)
                                THEN acc.correctAnswers + 1
                                ELSE acc.correctAnswers]
    ELSE [acc EXCEPT !.maxPossibleScore = acc.maxPossibleScore + 1]

RECURSIVE ScoreLoop(_, _, _, _)
\* this.questions.forEach(...)
ScoreLoop(qs, map, i, acc) ==
    IF i > Len(qs) THEN acc
    ELSE ScoreLoop(qs, map, i + 1,
                   ScoreOne(acc, GetLatestUserAnswer(map, qs[i].id)))

\* the object getQuizProgress() returns
QuizProgress(qs, map, index, hints) ==
    LET sums == ScoreLoop(qs, map, 1,
                          [totalScore |-> JSNum(0, 1), maxPossibleScore |-> 0,
                           correctAnswers |-> 0])
        hintPenalty == MathMin(JSNum(2 * sums.correctAnswers, 10),
                               JSNum(hints, 10))
    IN [k |-> "object",
        currentQuestionIndex |-> index,
        totalQuestions |-> Len(qs),
        answeredQuestions |-> Cardinality(DOMAIN map),
        correctAnswers |-> sums.correctAnswers,
        totalScore |-> sums.totalScore,
        maxPossibleScore |-> sums.maxPossibleScore,
        overallScore |->
            IF sums.maxPossibleScore > 0
            THEN MathRound(JSNum(100 * NumSub(sums.totalScore, hintPenalty).p,
                                 NumSub(sums.totalScore, hintPenalty).q
                                 * sums.maxPossibleScore))
            ELSE 0,
        hintCount |-> hints]

\* getQuizProgress() that records the completion it observes
GetQuizProgressMarksCompleted ==
    /\ isCompleted' = (Cardinality(DOMAIN userAnswers) >= Len(questions))
    /\ last' = Call("getQuizProgress", <<>>, "none",
                    QuizProgress(questions, userAnswers, currentQuestionIndex,
                                 hintCount),
                    NoCalls)
    /\ UNCHANGED <<questionStore, answerStore, localHintCount, questions,
                   userAnswers, currentQuestionIndex, hintCount, status, clock,
                   inflight, restarting>>

\* getAnswerHistory(questionId): the static method it calls,
\* UserAnswer.getAllAnswersByQuestionId, is not defined (its definition is
\* commented out), so the call is a call of undefined
GetAnswerHistory(questionId) ==
    /\ last' = Call("getAnswerHistory", [questionId |-> questionId],
                    "TypeError", Undefined, NoCalls)
    /\ UNCHANGED <<questionStore, answerStore, localHintCount, questions,
                   userAnswers, currentQuestionIndex, hintCount, isCompleted,
                   status, clock, inflight, restarting>>

\* getAnsweredQuestions() called on its own
GetAnsweredQuestionsCall ==
    /\ last' = Call("getAnsweredQuestions", <<>>, "none",
                    GetAnsweredQuestions(questions, userAnswers), NoCalls)
    /\ UNCHANGED <<questionStore, answerStore, localHintCount, questions,
                   userAnswers, currentQuestionIndex, hintCount, isCompleted,
                   status, clock, inflight, restarting>>

GetQuizProgress ==
    /\ last' = Call("getQuizProgress", <<>>, "none",
                    QuizProgress(questions, userAnswers, currentQuestionIndex,
                                 hintCount),
                    NoCalls)
    /\ UNCHANGED <<questionStore, answerStore, localHintCount, questions,
                   userAnswers, currentQuestionIndex, hintCount, isCompleted,
                   status, clock, inflight, restarting>>

(***************************************************************************)
(* Inputs.                                                                 *)
(***************************************************************************)
Q1 == QuestionData(1, "t1", "objective", 1, <<"A">>, <<>>, 0, 0)

Q2 == QuestionData(2, "t1", "subjective", 1, <<>>, <<(<<"A">>)>>, 1, 1)

SessionRemotes == {<<>>, <<Q1, Q2>>}

SessionTexts == {<<"a">>, <<"a", "b">>}

\* an id argument: omitted, 0, the ids of the questions, an unknown id
QuestionIdArgs == {Undefined} \cup {JSNum(n, 1) : n \in {0, 2, 9}}

\* bodies the evaluation endpoint answers with: graded correct, graded
\* incorrect, and the body it sends when the model's reply did not parse
RemoteBodies ==
    {[isCorrect |-> JSBool(TRUE), grade |-> JSNum(9, 1), nextHint |-> Null,
      fullEvaluation |-> JSStr("Grade: 9")],
     [isCorrect |-> JSBool(FALSE), grade |-> JSNum(4, 1),
      nextHint |-> JSStr("hint"), fullEvaluation |-> JSStr("Grade: 4")],
     [isCorrect |-> Null, grade |-> Null, nextHint |-> Null,
      fullEvaluation |-> JSStr("?")]}

Failures == {[kind |-> "error"], [kind |-> "notok"]}

EvaluationResponses ==
    {NoResponse} \cup Failures \cup {[kind |-> "ok", body |-> b] : b \in RemoteBodies}

GradedCorrect ==
    [isCorrect |-> JSBool(TRUE), grade |-> JSNum(9, 1), nextHint |-> Null,
     fullEvaluation |-> JSStr("Grade: 9")]

SessionResponses ==
    {NoResponse, [kind |-> "error"], [kind |-> "ok", body |-> GradedCorrect]}

FetchResponses(remotes) ==
    Failures \cup {[kind |-> "ok", body |-> r] : r \in remotes}

(***************************************************************************)
(* The session: a fresh browser profile, then any sequence of page loads   *)
(* and calls.                                                              *)
(***************************************************************************)
Init ==
    /\ questionStore = EmptyStore
    /\ answerStore = EmptyStore
    /\ localHintCount = Null
    /\ questions = <<>>
    /\ userAnswers = EmptyStore
    /\ currentQuestionIndex = 0
    /\ hintCount = 0
    /\ isCompleted = FALSE
    /\ status = "new"
    /\ clock = 0
    /\ inflight = EmptyStore
    /\ restarting = FALSE
    /\ last = [op |-> "constructor", args |-> <<>>, threw |-> "none",
               ret |-> Undefined, calls |-> NoCalls,
               pre |-> [answered |-> 0, total |-> 0, index |-> 0,
                        hintCount |-> 0, isCompleted |-> FALSE]]

Next ==
    \/ Construct
    \/ \E response \in FetchResponses(SessionRemotes) : QuizInit(response)
    \/ \E clearOk \in BOOLEAN : Restart(clearOk)
    \/ /\ clock < MaxSubmits
       /\ \E text \in SessionTexts, id \in QuestionIdArgs,
             response \in SessionResponses, saveOk \in BOOLEAN :
               /\ (response.kind = "ok" \/ id \in {JSNum(0, 1), JSNum(9, 1)})
                     => text = <<"a">>
               /\ SubmitAnswer(text, id, response, saveOk)
    \/ MoveToNextQuestion
    \/ hintCount < MaxHints /\ IncrementHintCount
    \/ CompleteQuiz

Spec == Init /\ [][Next]_vars

(***************************************************************************)
(* Grading on its own: one question is loaded, one answer is submitted,    *)
(* over every question of EvalQuestions and every string of Strings.       *)
(***************************************************************************)
ExpectedAnswers == {s \in Strings : Len(s) <= 2}

KeywordLists == {<<>>, <<(<<"a">>)>>, <<(<<"a">>), (<<"B">>)>>, <<(<<"a", "b">>)>>}

EvalQuestions ==
    {QuestionData(1, "t1", "objective", 1, e, <<>>, 0, 0) : e \in ExpectedAnswers}
    \cup {QuestionData(1, "t1", "subjective", 1, <<>>, kw, mk, ml) :
            kw \in KeywordLists, mk \in 0..2, ml \in 0..2}

LoadOne == \E q \in EvalQuestions : QuizInit([kind |-> "ok", body |-> <<q>>])

SubmitOnce ==
    /\ status = "ready"
    /\ clock = 0
    /\ \E text \in Strings, response \in EvaluationResponses, saveOk \in BOOLEAN :
          SubmitAnswer(text, Undefined, response, saveOk)

NextEval == LoadOne \/ SubmitOnce

SpecEval == Init /\ [][NextEval]_vars

(***************************************************************************)
(* The question bank on its own: any sequence of sync and forceRefresh     *)
(* calls with remote lists of distinct ids.                                *)
(***************************************************************************)
Versions == 0..MaxVersion

RemoteVariants(id) ==
    IF id = 1
    THEN {QuestionData(1, text, "objective", v, <<"A">>, <<>>, 0, 0) :
            text \in {"t", "u"}, v \in Versions}
    ELSE {QuestionData(id, "t", "subjective", v, <<>>, <<(<<"a">>)>>, 1, 2) :
            v \in Versions}

SyncRemotes ==
    {<<>>}
    \cup {<<a>> : a \in RemoteVariants(1) \cup RemoteVariants(2)}
    \cup {<<a, b>> : a \in RemoteVariants(1), b \in RemoteVariants(2)}
    \cup {<<b, a>> : a \in RemoteVariants(1), b \in RemoteVariants(2)}

\* the remote lists whose questions all carry the first text
RefreshRemotes ==
    {r \in SyncRemotes : \A i \in 1..Len(r) : r[i].question = "t"}

NextSync ==
    \/ \E remoteQuestions \in SyncRemotes : SyncCall(remoteQuestions)
    \/ \E remoteQuestions \in RefreshRemotes : ForceRefreshCall(remoteQuestions)

SpecSync == Init /\ [][NextSync]_vars

(***************************************************************************)
(* Progress over page loads: answers whose saves succeed, hints, full      *)
(* refreshes of the bank, reloads, and reads of the progress.              *)
(***************************************************************************)
Q1Only == <<Q1>>

\* an evaluation that calls the answer correct and grades it 0
GradedZeroCorrect ==
    [isCorrect |-> JSBool(TRUE), grade |-> JSNum(0, 1), nextHint |-> Null,
     fullEvaluation |-> JSStr("Grade: 0")]

ProgressResponses ==
    {NoResponse, [kind |-> "error"]}
    \cup {[kind |-> "ok", body |-> b] : b \in RemoteBodies \cup {GradedZeroCorrect}}

ProgressIdArgs == {Undefined, JSNum(2, 1)}

NextProgress ==
    \/ Construct
    \/ \E response \in {[kind |-> "error"], [kind |-> "ok", body |-> <<Q1, Q2>>]} :
          QuizInit(response)
    \/ /\ clock < MaxSubmits
       /\ \E text \in SessionTexts, id \in ProgressIdArgs,
             response \in ProgressResponses :
               /\ response.kind = "ok" => text = <<"a">>
               /\ SubmitAnswer(text, id, response, TRUE)
    \/ hintCount < MaxHints /\ IncrementHintCount
    \/ ForceRefreshCall(Q1Only)
    \/ GetQuizProgress
    \/ GetAnsweredQuestionsCall
    \/ \E questionId \in {1, 2} : GetAnswerHistory(questionId)

SpecProgress == Init /\ [][NextProgress]_vars

(***************************************************************************)
(* The answer log under every operation of the session and the bank.       *)
(***************************************************************************)
TextUpdate == [question |-> "t2"]

\* an updates object that carries a version of its own
VersionUpdate == [version |-> 0]

QuestionUpdates == {TextUpdate, VersionUpdate}

NextLog ==
    \/ Construct
    \/ \E response \in {[kind |-> "error"], [kind |-> "ok", body |-> <<Q1, Q2>>]} :
          QuizInit(response)
    \/ \E clearOk \in BOOLEAN : Restart(clearOk)
    \/ /\ clock < MaxSubmits
       /\ \E response \in {NoResponse, [kind |-> "error"]}, saveOk \in BOOLEAN :
             SubmitAnswer(<<"a">>, Undefined, response, saveOk)
    \/ MoveToNextQuestion
    \/ hintCount < MaxHints /\ IncrementHintCount
    \/ CompleteQuiz
    \/ \E questionId \in {1, 9}, updates \in QuestionUpdates, saveOk \in BOOLEAN :
          /\ \A i \in 1..Len(questions) : questions[i].version <= MaxVersion
          /\ UpdateQuestion(questionId, updates, saveOk)
    \/ SyncCall(<<Q1, Q2>>)

SpecLog == Init /\ [][NextLog]_vars

(***************************************************************************)
(* Overlapping submitAnswer calls: a call may start while the save of an   *)
(* earlier one is between its read and its write.  Every save succeeds.    *)
(***************************************************************************)
RaceTexts == {<<"a">>, <<"b">>}

RaceIdArgs == {Undefined, JSNum(2, 1)}

NextRace ==
    \/ inflight = EmptyStore /\ Construct
    \/ \E response \in {[kind |-> "error"], [kind |-> "ok", body |-> <<Q1, Q2>>]} :
          QuizInit(response)
    \/ /\ clock < MaxSubmits
       /\ \E text \in RaceTexts, id \in RaceIdArgs,
             response \in {NoResponse, [kind |-> "error"]} :
               SubmitStart(text, id, response)
    \/ \E call \in DOMAIN inflight : SaveRead(call)
    \/ \E call \in DOMAIN inflight : SaveWrite(call)

SpecRace == Init /\ [][NextRace]_vars

(***************************************************************************)
(* Sessions whose saves all succeed and whose init() may be called again   *)
(* on the same object.                                                     *)
(***************************************************************************)
NextReinit ==
    \/ Construct
    \/ \E response \in {[kind |-> "error"], [kind |-> "ok", body |-> <<Q1, Q2>>]} :
          QuizInit(response)
    \/ \E response \in {[kind |-> "error"], [kind |-> "ok", body |-> <<Q1, Q2>>]} :
          /\ \A id \in DOMAIN userAnswers : Len(userAnswers[id]) <= MaxSubmits
          /\ QuizInitAgain(response)
    \/ /\ clock < MaxSubmits
       /\ \E text \in RaceTexts, id \in RaceIdArgs,
             response \in {NoResponse, [kind |-> "error"]} :
               SubmitAnswer(text, id, response, TRUE)
    \/ Restart(TRUE)

SpecReinit == Init /\ [][NextReinit]_vars

(***************************************************************************)
(* The bank under sync and local edits: remote lists that hold question 1  *)
(* under either type, updates that set the text or the type.               *)
(***************************************************************************)
\* remote versions reach one past the versions local edits are made at
BankVersions == 0..(MaxVersion + 1)

RetypedVariants ==
    {QuestionData(1, "t", "subjective", v, <<>>, <<(<<"a">>)>>, 1, 2) :
        v \in BankVersions}

BankRemotes ==
    {<<a>> : a \in {QuestionData(1, "t", "objective", v, <<"A">>, <<>>, 0, 0) :
                       v \in BankVersions}
                   \cup RetypedVariants}

TypeUpdate == [type |-> "subjective"]

BankUpdates == {TextUpdate, TypeUpdate}

NextBank ==
    \/ Construct
    \/ \E response \in {[kind |-> "error"]}
                       \cup {[kind |-> "ok", body |-> r] : r \in BankRemotes} :
          QuizInit(response)
    \/ \E remoteQuestions \in BankRemotes : SyncCall(remoteQuestions)
    \/ \E questionId \in {1, 9}, updates \in BankUpdates, saveOk \in BOOLEAN :
          /\ \A i \in 1..Len(questions) : questions[i].version <= MaxVersion
          /\ UpdateQuestion(questionId, updates, saveOk)

SpecBank == Init /\ [][NextBank]_vars

(***************************************************************************)
(* A restart() that may overlap one submitAnswer call in flight.  Every    *)
(* storage operation succeeds, and no two submitAnswer calls overlap.      *)
(***************************************************************************)
NextRestartRace ==
    \/ inflight = EmptyStore /\ ~restarting /\ Construct
    \/ \E response \in {[kind |-> "error"], [kind |-> "ok", body |-> <<Q1, Q2>>]} :
          QuizInit(response)
    \/ /\ clock < MaxSubmits
       /\ inflight = EmptyStore
       /\ \E text \in RaceTexts, id \in RaceIdArgs,
             response \in {NoResponse, [kind |-> "error"]} :
               SubmitStart(text, id, response)
    \/ \E call \in DOMAIN inflight : SaveRead(call)
    \/ \E call \in DOMAIN inflight : SaveWrite(call)
    \/ status = "ready" /\ RestartClear
    \/ RestartFinish

SpecRestartRace == Init /\ [][NextRestartRace]_vars

(***************************************************************************)
(* The page: the session driven through the controls index.html renders.   *)
(* Every handler renders the quiz again when it is done, so a control is   *)
(* there exactly when the state it was rendered from is the current one.   *)
(***************************************************************************)
\* the controls are rendered once init() has resolved
Rendered == status = "ready"

\* Submit, rendered for the current question of a quiz that is not
\* completed and enabled when an answer is entered: handleSubmit(question.id)
PageSubmit(userAnswerText, response, saveOk) ==
    /\ Rendered
    /\ ~isCompleted
    /\ GetCurrentQuestion # Undefined
    /\ Trim(userAnswerText) # <<>>
    /\ SubmitAnswer(userAnswerText, JSNum(GetCurrentQuestion.id, 1), response,
                    saveOk)

\* Next Question, rendered when the latest answer of the current question
\* is correct and there is a next question: moveToNextQuestion()
PageNextQuestion ==
    /\ Rendered
    /\ ~isCompleted
    /\ GetCurrentQuestion # Undefined
    /\ GetLatestUserAnswer(userAnswers, GetCurrentQuestion.id) # Null
    /\ Truthy(GetLatestUserAnswer(userAnswers, GetCurrentQuestion.id).isCorrect)
    /\ HasNextQuestion(currentQuestionIndex, questions)
    /\ MoveToNextQuestion

\* Hint 1 and Hint 2 of the current question: showHint
PageShowHint ==
    /\ Rendered
    /\ ~isCompleted
    /\ GetCurrentQuestion # Undefined
    /\ IncrementHintCount

\* Finish Quiz: handleFinishQuiz
PageFinishQuiz ==
    /\ Rendered
    /\ ~isCompleted
    /\ CompleteQuiz

\* Restart Quiz, on the completion screen: handleRestartQuiz
PageRestartQuiz(clearOk) ==
    /\ Rendered
    /\ isCompleted
    /\ Restart(clearOk)

PageTexts == {<<"a">>, <<"b">>}

NextPage ==
    \/ Construct
    \/ \E response \in {[kind |-> "error"], [kind |-> "ok", body |-> <<Q1, Q2>>]} :
          QuizInit(response)
    \/ /\ clock < MaxSubmits
       /\ \E text \in PageTexts, response \in {NoResponse, [kind |-> "error"]},
             saveOk \in BOOLEAN :
               PageSubmit(text, response, saveOk)
    \/ PageNextQuestion
    \/ hintCount < MaxHints /\ PageShowHint
    \/ PageFinishQuiz
    \/ \E clearOk \in BOOLEAN : PageRestartQuiz(clearOk)

SpecPage == Init /\ [][NextPage]_vars

(***************************************************************************)
(* Properties.                                                             *)
(***************************************************************************)
\* the in-memory history of a question, empty when the map has no entry
HistoryOf(map, id) == IF id \in DOMAIN map THEN map[id] ELSE <<>>

\* the persisted history of a question, empty when the store has no record
StoredHistoryOf(store, id) ==
    IF id \in DOMAIN store THEN store[id].answers ELSE <<>>

IsPrefixPlusOne(old, new) ==
    Len(new) = Len(old) + 1 /\ SubSeq(new, 1, Len(old)) = old

EvaluationFields ==
    {"isCorrect", "grade", "nextHint", "fullEvaluation", "confidenceScore"}

\* the question the last submitAnswer call answered
LastTarget == FindQuestion(questions, last.calls.target)

LastSubmitted ==
    last.op = "submitAnswer" /\ last.threw = "none"

\* C1: a submitAnswer call that resolves a question and whose save succeeds
\* appends exactly one entry to that question's history, in the answer map
\* and in the 'userAnswers' store, leaves every other history as it was, and
\* getLatestUserAnswer then returns the entry just appended (this question,
\* this text, this evaluation, this time).
C1_SubmitAppendsOne ==
    [][(last'.op = "submitAnswer" /\ last'.threw = "none" /\ last'.args.saveOk)
       => LET id == last'.calls.target
              latest == GetLatestUserAnswer(userAnswers', id)
              others == (DOMAIN userAnswers \cup DOMAIN userAnswers'
                         \cup DOMAIN answerStore \cup DOMAIN answerStore') \ {id}
          IN /\ IsPrefixPlusOne(HistoryOf(userAnswers, id),
                                HistoryOf(userAnswers', id))
             /\ IsPrefixPlusOne(StoredHistoryOf(answerStore, id),
                                StoredHistoryOf(answerStore', id))
             /\ \A o \in others :
                   /\ HistoryOf(userAnswers', o) = HistoryOf(userAnswers, o)
                   /\ StoredHistoryOf(answerStore', o) = StoredHistoryOf(answerStore, o)
             /\ latest # Null
             /\ latest.questionId = id
             /\ latest.answer = last'.args.text
             /\ latest.submittedAt = clock
             /\ \A f \in EvaluationFields : latest[f] = last'.ret[f]
             /\ StoredHistoryOf(answerStore', id)[Len(StoredHistoryOf(answerStore', id))]
                  = latest]_vars

\* a saved submission for a question that already had an answer
C1_Witness ==
    /\ LastSubmitted
    /\ last.args.saveOk
    /\ Len(HistoryOf(userAnswers, last.calls.target)) = 2
    /\ Len(StoredHistoryOf(answerStore, last.calls.target)) = 2

\* C2: for a question id in the bank at version v1, sync with a remote list
\* holding that id at version v2 stores the remote record when v2 > v1 and
\* leaves the stored record as it was when v2 <= v1.
C2_SyncNewerWins ==
    last.op = "sync" =>
        \A i \in 1..Len(last.args.remote) :
            LET r == last.args.remote[i] IN
            r.id \in DOMAIN last.pre.store =>
                IF r.version > last.pre.store[r.id].version
                THEN questionStore[r.id] = r
                ELSE questionStore[r.id] = last.pre.store[r.id]

\* a sync that replaced a stored question by a newer remote one and kept
\* another against a remote one that is not newer
C2_Witness ==
    /\ last.op = "sync"
    /\ \E i, j \in 1..Len(last.args.remote) :
          LET r == last.args.remote[i]
              o == last.args.remote[j]
          IN /\ r.id \in DOMAIN last.pre.store
             /\ r.version > last.pre.store[r.id].version
             /\ questionStore[r.id] = r
             /\ o.id \in DOMAIN last.pre.store
             /\ o.version = last.pre.store[o.id].version
             /\ o # last.pre.store[o.id]
             /\ questionStore[o.id] = last.pre.store[o.id]

\* C3: after restart() completes, from any session state, the answer map
\* and the 'userAnswers' store are empty, the cursor, the hint count and the
\* stored hint count are 0, the quiz is not completed, and the question
\* bank and the question list are as before.
C3_RestartResets ==
    [][(last'.op = "restart" /\ last'.threw = "none")
       => /\ DOMAIN userAnswers' = {}
          /\ DOMAIN answerStore' = {}
          /\ currentQuestionIndex' = 0
          /\ hintCount' = 0
          /\ localHintCount' = JSStr(<<"0">>)
          /\ ~isCompleted'
          /\ questionStore' = questionStore
          /\ questions' = questions]_vars

\* a restart of a completed session with two answered questions, a hint
\* taken and the cursor moved
C3_Witness ==
    /\ last.op = "restart"
    /\ last.threw = "none"
    /\ last.pre.answered = 2
    /\ last.pre.hintCount > 0
    /\ last.pre.index > 0
    /\ last.pre.isCompleted
    /\ DOMAIN answerStore = {}

\* index of the first question without an entry in the map, the number of
\* questions when every question has one
FirstUnansweredOrEnd(qs, map) ==
    LET unanswered == {i \in 1..Len(qs) : qs[i].id \notin DOMAIN map}
    IN IF unanswered = {} THEN Len(qs)
       ELSE (CHOOSE i \in unanswered : \A j \in unanswered : i <= j) - 1

CursorAfterInit(qs, map) ==
    LET answered == {i \in 1..Len(qs) : qs[i].id \in DOMAIN map}
        k == Cardinality(answered)
        m == CHOOSE i \in answered : \A j \in answered : qs[j].id <= qs[i].id
    IN IF k = 0 THEN 0
       ELSE IF GetLatestUserAnswer(map, qs[m].id).isCorrect = JSBool(TRUE)
               /\ k <= Len(qs) - 1
            THEN k ELSE k - 1

C5_InitToleratesFetchFailure ==
    [][(last'.op = "init" /\ last'.args.fetch \in Failures)
       => /\ last'.threw = "none"
          /\ questions' = QuestionGetAll(questionStore)
          /\ questionStore' = questionStore]_vars

\* C6: for a subjective question, when the evaluation call is rejected or
\* answers with a status that is not ok, submitAnswer raises no error and
\* both returns and records what the local keyword heuristic yields for
\* the same question and answer.
C6_FallbackToLocal ==
    (/\ last.op = "submitAnswer"
     /\ last.args.response \in Failures)
    => /\ last.threw = "none"
       /\ LastTarget.type = "subjective"
       /\ LET heuristic == LocalEvaluateSubjectiveAnswer(LastTarget, last.args.text)
              recorded == GetLatestUserAnswer(userAnswers, LastTarget.id)
          IN /\ recorded # Null
             /\ recorded.answer = last.args.text
             /\ \A f \in EvaluationFields :
                   /\ last.ret[f] = Prop(heuristic, f)
                   /\ recorded[f] = Prop(heuristic, f)
             /\ last.args.saveOk =>
                   LET stored == StoredHistoryOf(answerStore, LastTarget.id)
                   IN /\ Len(stored) > 0
                      /\ stored[Len(stored)] = UserAnswerToJSON(recorded)

\* the endpoint answered with an error status and the heuristic graded the
\* answer correct
C6_Witness ==
    /\ last.op = "submitAnswer"
    /\ last.args.response = [kind |-> "notok"]
    /\ last.threw = "none"
    /\ last.ret.isCorrect = JSBool(TRUE)
    /\ last.calls.local = 1

\* the question a submitAnswer call names does not resolve: an id was
\* passed and no question has it, or none was passed and the cursor is on
\* no question
Unresolvable(qs, index, questionId) ==
    IF questionId = Undefined
    THEN ~(index >= 0 /\ index < Len(qs))
    ELSE \A i \in 1..Len(qs) : qs[i].id # questionId.p

\* C7: submitAnswer fails with 'Question not found' whenever the id passed
\* matches no question, or no id is passed and the cursor is on no
\* question; nothing is evaluated and the answer map, the answer log, the
\* cursor, the hint count and the completion flag are unchanged.
C7_QuestionNotFound ==
    [][(/\ last'.op = "submitAnswer"
        /\ Unresolvable(questions, currentQuestionIndex, last'.args.questionId))
       => /\ last'.threw = "Question not found"
          /\ last'.calls.checks = 0
          /\ UNCHANGED <<userAnswers, answerStore, currentQuestionIndex,
                         hintCount, isCompleted>>]_vars

\* C8: moveToNextQuestion() adds one to the cursor and returns true when
\* the cursor is below the last index; otherwise it returns false and the
\* cursor stays.  The answer map, the hint count and the completion flag
\* are unchanged either way.
C8_MoveToNext ==
    [][last'.op = "moveToNextQuestion"
       => /\ IF currentQuestionIndex < Len(questions) - 1
             THEN /\ currentQuestionIndex' = currentQuestionIndex + 1
                  /\ last'.ret = JSBool(TRUE)
             ELSE /\ currentQuestionIndex' = currentQuestionIndex
                  /\ last'.ret = JSBool(FALSE)
          /\ UNCHANGED <<userAnswers, hintCount, isCompleted>>]_vars

\* a call at the last index of a list of two questions, which did not move
C8_Witness ==
    /\ last.op = "moveToNextQuestion"
    /\ last.ret = JSBool(FALSE)
    /\ last.pre.total = 2
    /\ last.pre.index = 1
    /\ currentQuestionIndex = 1

\* the answer is the expected answer up to letter case and to blanks
\* around it
MatchesExpected(answer, expected) ==
    \E lead, trail \in 0..Len(answer) :
        /\ lead + trail <= Len(answer)
        /\ \A i \in 1..lead : answer[i] = " "
        /\ \A i \in (Len(answer) - trail + 1)..Len(answer) : answer[i] = " "
        /\ LET core == SubSeq(answer, lead + 1, Len(answer) - trail)
           IN /\ core # <<>> => core[1] # " " /\ core[Len(core)] # " "
              /\ Len(core) = Len(expected)
              /\ \A i \in 1..Len(core) :
                    ToLowerChar(core[i]) = ToLowerChar(expected[i])

\* C9: for an objective question and any answer text, isCorrect is true
\* exactly when the trimmed, lower-cased answer is the lower-cased expected
\* answer, confidenceScore is 1, and the evaluation endpoint is not called.
C9_ObjectiveGrading ==
    (LastSubmitted /\ LastTarget.type = "objective")
    => /\ last.ret.isCorrect
            = JSBool(MatchesExpected(last.args.text, LastTarget.expectedAnswer))
       /\ last.ret.confidenceScore = [k |-> "number", p |-> 1, q |-> 1]
       /\ last.calls.remote = 0
       /\ last.calls.local = 0
       /\ last.args.response = NoResponse

\* an answer graded correct that differs from the expected answer in case
\* and by a blank
C9_Witness ==
    /\ LastSubmitted
    /\ LastTarget.type = "objective"
    /\ last.ret.isCorrect = JSBool(TRUE)
    /\ LastTarget.expectedAnswer = <<"A">>
    /\ last.args.text = <<" ", "a", " ">>

\* C10: in the local heuristic an answer longer than the question's
\* maxLength is graded isCorrect = false, the boolean, and the UserAnswer
\* recorded carries that value, whatever keywords the answer contains.
C10_TooLongIsFalse ==
    (/\ LastSubmitted
     /\ last.calls.local = 1
     /\ LastTarget.maxLength > 0
     /\ Len(last.args.text) > LastTarget.maxLength)
    => /\ last.ret.isCorrect = JSBool(FALSE)
       /\ GetLatestUserAnswer(userAnswers, LastTarget.id).isCorrect = JSBool(FALSE)

\* the number of the question's keywords that occur in the answer, case
\* ignored on both sides
MatchedCount(question, answer) ==
    Cardinality({i \in 1..Len(question.keywords) :
                    Includes(ToLowerCase(answer),
                             ToLowerCase(question.keywords[i]))})

\* the answer is within the question's length bound; a maxLength of 0 (or
\* unset) sets no bound
WithinLength(question, answer) ==
    question.maxLength = 0 \/ Len(answer) <= question.maxLength

\* C11: in the local heuristic, for every subjective question (minKeywords
\* 0 or unset and maxLength 0 or unset included) and every answer within
\* the length bound, isCorrect is true exactly when the number of keywords
\* occurring in the answer is at least the question's minKeywords.
C11_KeywordThreshold ==
    (/\ LastSubmitted
     /\ last.calls.local = 1
     /\ WithinLength(LastTarget, last.args.text))
    => (last.ret.isCorrect = JSBool(TRUE)
        <=> MatchedCount(LastTarget, last.args.text) >= LastTarget.minKeywords)

\* the ids of the answer map whose latest answer is correct
CorrectInMap(map) ==
    {id \in DOMAIN map : Truthy(GetLatestUserAnswer(map, id).isCorrect)}

\* C12: getQuizProgress() changes no session or persisted state, and a
\* second call made right after it returns the same value in every field.
C12_ProgressIsPureRead ==
    [][last'.op = "getQuizProgress" =>
          /\ UNCHANGED <<questionStore, answerStore, localHintCount, questions,
                         userAnswers, currentQuestionIndex, hintCount,
                         isCompleted, status, clock>>
          /\ last'.ret = QuizProgress(questions', userAnswers',
                                      currentQuestionIndex', hintCount')]_vars

\* progress read in a session with an answered and an unanswered question
\* and a hint taken
C12_Witness ==
    /\ last.op = "getQuizProgress"
    /\ last.ret.answeredQuestions = 1
    /\ last.ret.totalQuestions = 2
    /\ last.ret.hintCount = 1

\* C13: getQuizProgress() reports answeredQuestions as the number of ids in
\* the answer map and correctAnswers as the number of entries of the answer
\* map whose latest answer is correct, so correctAnswers <= answeredQuestions
\* (also when the map holds answers for ids no longer in the question list).
C13_ProgressCounts ==
    last.op = "getQuizProgress" =>
        /\ last.ret.answeredQuestions = Cardinality(DOMAIN userAnswers)
        /\ last.ret.correctAnswers = Cardinality(CorrectInMap(userAnswers))
        /\ last.ret.correctAnswers <= last.ret.answeredQuestions

\* the score of one answer: grade/10, the grade being the one recorded if
\* a number was recorded, else 10 when the answer is correct and 0 otherwise
AnswerScore(answer) ==
    IF answer.grade.k = "number" THEN JSNum(answer.grade.p, answer.grade.q * 10)
    ELSE IF Truthy(answer.isCorrect) THEN JSNum(1, 1) ELSE JSNum(0, 1)

RECURSIVE SumOfScores(_, _)
\* the sum of the scores of the latest answers of the ids
SumOfScores(map, ids) ==
    IF ids = {} THEN JSNum(0, 1)
    ELSE LET id == CHOOSE x \in ids : TRUE
         IN NumAdd(AnswerScore(GetLatestUserAnswer(map, id)),
                   SumOfScores(map, ids \ {id}))

\* round(100 x (totalScore - min(0.2 x correctCount, 0.1 x hintCount)) /
\* maxPossibleScore), 0 when there are no questions
OverallScore(totalScore, correctCount, hints, maxPossibleScore) ==
    LET hintPenalty == MathMin(JSNum(2 * correctCount, 10), JSNum(hints, 10))
        net == NumSub(totalScore, hintPenalty)
    IN IF maxPossibleScore = 0 THEN 0
       ELSE MathRound(JSNum(100 * net.p, net.q * maxPossibleScore))

\* C14: getQuizProgress() computes, from the latest answer of each answered
\* question, totalScore as the sum of grade/10 (10 when correct and 0
\* otherwise if no grade is recorded), maxPossibleScore as the number of
\* questions, the hint penalty as min(0.2 x correctCount, 0.1 x hintCount)
\* and overallScore as round(100 x (totalScore - penalty) /
\* maxPossibleScore), 0 when there are no questions.
C14_ProgressScore ==
    last.op = "getQuizProgress" =>
        /\ last.ret.totalScore = SumOfScores(userAnswers, DOMAIN userAnswers)
        /\ last.ret.maxPossibleScore = Len(questions)
        /\ last.ret.overallScore =
              OverallScore(SumOfScores(userAnswers, DOMAIN userAnswers),
                           Cardinality(CorrectInMap(userAnswers)),
                           hintCount, Len(questions))

IsPrefix(old, new) ==
    Len(old) <= Len(new) /\ SubSeq(new, 1, Len(old)) = old

\* C15: no operation other than restart (submitAnswer, moveToNextQuestion,
\* incrementHintCount, updateQuestion, completeQuiz, init, sync, a page
\* load) removes or rewrites a persisted answer: after it, every persisted
\* history has the history before it as a prefix.
C15_LogOnlyGrows ==
    [][last'.op # "restart" =>
          \A id \in DOMAIN answerStore :
              /\ id \in DOMAIN answerStore'
              /\ IsPrefix(answerStore[id].answers,
                          answerStore'[id].answers)]_vars

\* a second answer saved for a question after the question was edited
C15_Witness ==
    /\ LastSubmitted
    /\ last.args.saveOk
    /\ Len(StoredHistoryOf(answerStore, last.calls.target)) = 2
    /\ LastTarget.version > 1

\* C16: when persisting the new answer fails during submitAnswer, the call
\* raises no error and returns the evaluation of the answer, the in-memory
\* history of the question has gained the new answer carrying that
\* evaluation, and the 'userAnswers' store is as it was.
C16_SaveFailureTolerated ==
    [][(last'.op = "submitAnswer" /\ ~last'.args.saveOk) =>
          \E question \in {FindQuestion(questions, last'.calls.target)} :
          \E evaluation \in {CheckAnswer(question, last'.args.text,
                                         last'.args.response)} :
          LET before == HistoryOf(userAnswers, question.id)
              after == HistoryOf(userAnswers', question.id)
          IN /\ last'.threw = "none"
             /\ answerStore' = answerStore
             /\ \A f \in EvaluationFields : last'.ret[f] = Prop(evaluation, f)
             /\ IsPrefixPlusOne(before, after)
             /\ after[Len(after)].answer = last'.args.text
             /\ \A f \in EvaluationFields :
                   after[Len(after)][f] = Prop(evaluation, f)]_vars

\* a failed save of a second answer to a question whose first answer was
\* saved
C16_Witness ==
    /\ LastSubmitted
    /\ ~last.args.saveOk
    /\ Len(HistoryOf(userAnswers, last.calls.target)) = 2
    /\ Len(StoredHistoryOf(answerStore, last.calls.target)) = 1

\* the answer map a session holds when every history of the 'userAnswers'
\* store has been read back in order
MapOfStore(store) ==
    [id \in DOMAIN store |->
        [j \in 1..Len(store[id].answers) |->
            UserAnswerFromJSON(store[id].answers[j])]]

\* the number the 'hintCount' item of localStorage stands for
StoredHintCount(item) == IF item = Null THEN 0 ELSE DigitsValue(item.s)

\* C17: in a session whose submitAnswer calls all save, at every point after
\* init the answer map holds, for every question, exactly the persisted
\* history in submission order, and hintCount is the persisted hint count;
\* a page load and init() write neither store, so the freshly initialised
\* session has the answer map and the hintCount of the session before it.
C17_ResumeRoundTrip ==
    [][/\ status' = "ready" =>
             /\ userAnswers' = MapOfStore(answerStore')
             /\ hintCount' = StoredHintCount(localHintCount')
       /\ last'.op \in {"constructor", "init"} =>
             UNCHANGED <<answerStore, localHintCount>>]_vars

\* init has just resumed a session with a two-answer history and a hint
\* taken
C17_Witness ==
    /\ last.op = "init"
    /\ last.threw = "none"
    /\ hintCount = 1
    /\ \E id \in DOMAIN userAnswers : Len(userAnswers[id]) = 2

\* the ids of a list of questions
IdsOf(qs) == {qs[i].id : i \in 1..Len(qs)}

C19_SyncKeepsAndReturnsAll ==
    last.op = "sync" =>
        /\ \A id \in DOMAIN last.pre.store :
              /\ id \in DOMAIN questionStore
              /\ id \notin IdsOf(last.args.remote) =>
                    questionStore[id] = last.pre.store[id]
        /\ Len(last.ret) = Cardinality(DOMAIN questionStore)
        /\ {last.ret[i] : i \in 1..Len(last.ret)}
              = {QuestionFromJSON(questionStore[id]) : id \in DOMAIN questionStore}

\* a sync that wrote one new question into a bank holding another one, and
\* returned both
C19_Witness ==
    /\ last.op = "sync"
    /\ Len(last.args.remote) = 1
    /\ last.calls.writes = 1
    /\ DOMAIN last.pre.store = {1}
    /\ DOMAIN questionStore = {1, 2}
    /\ Len(last.ret) = 2

\* C20: after forceRefresh(remoteQuestions), whatever the bank held and
\* whatever the versions, the bank holds exactly the remote questions, each
\* with exactly the remote field values.
C20_ForceRefreshVerbatim ==
    last.op = "forceRefresh" =>
        /\ DOMAIN questionStore = IdsOf(last.args.remote)
        /\ \A i \in 1..Len(last.args.remote) :
              questionStore[last.args.remote[i].id] = last.args.remote[i]

\* C21: every incrementHintCount() raises hintCount by exactly one and
\* returns the new value; right after every incrementHintCount and every
\* restart the 'hintCount' item of localStorage stands for the in-memory
\* hintCount; no operation other than restart lowers hintCount.
C21_HintCountMonotonic ==
    [][/\ last'.op = "incrementHintCount" =>
             /\ hintCount' = hintCount + 1
             /\ last'.ret = JSNum(hintCount', 1)
       /\ last'.op \in {"incrementHintCount", "restart"} =>
             StoredHintCount(localHintCount') = hintCount'
       /\ last'.op # "restart" => hintCount' >= hintCount]_vars

\* a hint taken again after a restart had reset the count, in a session
\* with an answer
C21_Witness ==
    /\ last.op = "incrementHintCount"
    /\ last.ret = JSNum(1, 1)
    /\ localHintCount = JSStr(NumberToString(1))
    /\ Cardinality(DOMAIN userAnswers) > 0

\* C22: completeQuiz() sets the session to completed from any cursor
\* position and any answer map, the empty one included, and changes nothing
\* else: cursor, answer map, 'userAnswers' store, hintCount, question list
\* and bank are as before.
C22_CompleteQuizOnly ==
    [][last'.op = "completeQuiz" =>
          /\ isCompleted'
          /\ UNCHANGED <<questionStore, answerStore, localHintCount, questions,
                         userAnswers, currentQuestionIndex, hintCount, status,
                         clock>>]_vars

\* completed on the first of two questions with no answer given
C22_Witness ==
    /\ last.op = "completeQuiz"
    /\ isCompleted
    /\ Len(questions) = 2
    /\ currentQuestionIndex = 0
    /\ userAnswers = EmptyStore
    /\ ~last.pre.isCompleted

\* C23: getAnsweredQuestions() returns exactly the questions of the list
\* that have an entry in the answer map, each with the text and the
\* correctness of the latest answer of its history, in strictly ascending
\* order of id, and modifies no state.
C23_AnsweredQuestions ==
    [][last'.op = "getAnsweredQuestions" =>
          LET r == last'.ret
          IN /\ \A i, j \in 1..Len(r) : i < j => r[i].id < r[j].id
             /\ {r[i].id : i \in 1..Len(r)}
                   = {questions[k].id : k \in 1..Len(questions)}
                        \cap DOMAIN userAnswers
             /\ \A i \in 1..Len(r) :
                   LET history == userAnswers[r[i].id]
                   IN /\ r[i].userAnswer = history[Len(history)].answer
                      /\ r[i].isCorrect = history[Len(history)].isCorrect
             /\ UNCHANGED <<questionStore, answerStore, localHintCount,
                            questions, userAnswers, currentQuestionIndex,
                            hintCount, isCompleted, status, clock>>]_vars

\* a question answered twice, wrongly and then correctly, is returned with
\* its second answer
C23_Witness ==
    /\ last.op = "getAnsweredQuestions"
    /\ Len(last.ret) = 1
    /\ LET history == userAnswers[last.ret[1].id]
       IN /\ Len(history) = 2
          /\ history[1].isCorrect = JSBool(FALSE)
          /\ history[2].isCorrect = JSBool(TRUE)
          /\ history[1].answer # history[2].answer
          /\ last.ret[1].isCorrect = JSBool(TRUE)

\* C24: when the evaluation endpoint answers with an ok status and a body
\* whose isCorrect or grade is null, submitAnswer runs the local keyword
\* heuristic as it does after a failed call, and the answer recorded carries
\* the heuristic's isCorrect.
C24_MalformedFallsBack ==
    (/\ LastSubmitted
     /\ LastTarget.type = "subjective"
     /\ last.args.response.kind = "ok"
     /\ \/ last.args.response.body.isCorrect = Null
        \/ last.args.response.body.grade = Null)
    => /\ last.calls.local = 1
       /\ GetLatestUserAnswer(userAnswers, LastTarget.id).isCorrect
             = Prop(LocalEvaluateSubjectiveAnswer(LastTarget, last.args.text),
                    "isCorrect")

\* C25: getAnswerHistory(questionId) returns the persisted answers of the
\* question in stored order, and the empty list when the question has none.
C25_AnswerHistoryRead ==
    last.op = "getAnswerHistory" =>
        /\ last.threw = "none"
        /\ LET stored == StoredHistoryOf(answerStore, last.args.questionId)
           IN last.ret = [j \in 1..Len(stored) |-> UserAnswerFromJSON(stored[j])]

\* C26: updateQuestion(id, updates) on an id of the question list leaves
\* that question with a version strictly greater than before the call, for
\* every updates object, and once the save has succeeded the bank holds the
\* question as the list holds it; on an id that is not in the list neither
\* the list nor the bank changes and no error is raised.
C26_UpdateBumpsVersion ==
    [][last'.op = "updateQuestion" =>
          LET id == last'.args.questionId
              before == FindQuestion(questions, id)
              after == FindQuestion(questions', id)
          IN IF before = Undefined
             THEN /\ questions' = questions
                  /\ questionStore' = questionStore
                  /\ last'.threw = "none"
             ELSE /\ after # Undefined
                  /\ after.version > before.version
                  /\ last'.args.saveOk =>
                        /\ id \in DOMAIN questionStore'
                        /\ questionStore'[id] = QuestionToJSON(after)]_vars

\* the stored answers of a list that are not answers of another
LostFrom(before, after) ==
    {before[i] : i \in 1..Len(before)} \ {after[i] : i \in 1..Len(after)}

\* C27: when two submitAnswer calls for one question have both read the
\* stored history before either has written it back, the write of the
\* second one puts the history it read plus its own answer, so the stored
\* history then lacks the answer the first one wrote, while the in-memory
\* history holds both answers.
C27_LostUpdate ==
    [][\A call \in DOMAIN inflight :
          (/\ call \notin DOMAIN inflight'
           /\ StoredHistoryOf(answerStore, inflight[call].newAnswer.questionId)
                 # inflight[call].existingAnswers.answers)
          => LET mine == inflight[call].newAnswer
                 id == mine.questionId
                 read == inflight[call].existingAnswers.answers
                 lost == LostFrom(StoredHistoryOf(answerStore, id),
                                  StoredHistoryOf(answerStore', id))
             IN /\ StoredHistoryOf(answerStore', id)
                      = Append(read, UserAnswerToJSON(mine))
                /\ lost # {}
                /\ \A a \in lost :
                      \E j \in 1..Len(HistoryOf(userAnswers', id)) :
                         UserAnswerToJSON(userAnswers'[id][j]) = a
                /\ \E j \in 1..Len(HistoryOf(userAnswers', id)) :
                      userAnswers'[id][j] = mine
                /\ Len(StoredHistoryOf(answerStore', id))
                      < Len(HistoryOf(userAnswers', id))]_vars

\* both calls have returned: the session holds two answers to the question,
\* the store only the one written last
C27_Witness ==
    /\ inflight = EmptyStore
    /\ last.op = "submitAnswer"
    /\ Len(HistoryOf(userAnswers, last.calls.target)) = 2
    /\ Len(StoredHistoryOf(answerStore, last.calls.target)) = 1

\* C28: with calls run one after the other and every storage operation
\* succeeding, after every init, submitAnswer and restart that has completed
\* the answer map and the 'userAnswers' store hold the same question ids
\* and, for each id, the same answers in the same order.
C28_MapAgreesWithLog ==
    (last.op \in {"init", "submitAnswer", "restart"} /\ last.threw = "none")
    => /\ DOMAIN userAnswers = DOMAIN answerStore
       /\ \A id \in DOMAIN userAnswers :
             /\ Len(userAnswers[id]) = Len(answerStore[id].answers)
             /\ \A j \in 1..Len(userAnswers[id]) :
                   UserAnswerToJSON(userAnswers[id][j]) = answerStore[id].answers[j]

\* C29: sync treats an id that the bank does not hold as held at version
\* 0: a remote question whose id is not in the bank is written exactly when
\* its version is greater than 0, and the record written carries the remote
\* version.
C29_AbsentIsVersionZero ==
    last.op = "sync" =>
        \A i \in 1..Len(last.args.remote) :
            LET r == last.args.remote[i] IN
            r.id \notin DOMAIN last.pre.store =>
                IF r.version > 0
                THEN /\ r.id \in DOMAIN questionStore
                     /\ questionStore[r.id].version = r.version
                ELSE r.id \notin DOMAIN questionStore

C31_IdAndTypeImmutable ==
    [][\A id \in DOMAIN questionStore :
          id \in DOMAIN questionStore' =>
             /\ questionStore'[id].id = questionStore[id].id
             /\ questionStore'[id].type = questionStore[id].type]_vars

\* C32: when clearing the 'userAnswers' store fails during restart(), the
\* failure is raised to the caller and the session is as it was: answer
\* map, cursor, hintCount in memory and in localStorage and completion flag
\* are unchanged, as is the store, so a map that matched the store still
\* matches it.
C32_RestartFailureLeavesSession ==
    [][(last'.op = "restart" /\ ~last'.args.clearOk) =>
          /\ last'.threw # "none"
          /\ UNCHANGED <<userAnswers, currentQuestionIndex, hintCount,
                         localHintCount, isCompleted, answerStore, questions,
                         questionStore>>
          /\ userAnswers = MapOfStore(answerStore)
                => userAnswers' = MapOfStore(answerStore')]_vars

\* a failed restart of a completed session with a saved answer and a hint
C32_Witness ==
    /\ last.op = "restart"
    /\ last.threw = "StorageError"
    /\ isCompleted
    /\ hintCount = 1
    /\ localHintCount = JSStr(NumberToString(1))
    /\ DOMAIN userAnswers # {}
    /\ userAnswers = MapOfStore(answerStore)

\* C33: in every state reached after an init() that succeeded on a bank of
\* n >= 1 questions, through any sequence of submitAnswer,
\* moveToNextQuestion, restart, incrementHintCount and completeQuiz, the
\* cursor is within 0..n-1 and getCurrentQuestion() returns a question.
C33_CursorInRange ==
    (status = "ready" /\ Len(questions) >= 1)
    => /\ currentQuestionIndex >= 0
       /\ currentQuestionIndex <= Len(questions) - 1
       /\ GetCurrentQuestion # Undefined
       /\ GetCurrentQuestion = questions[currentQuestionIndex + 1]

\* moveToNextQuestion() refused on the last of two questions
C33_Witness ==
    /\ status = "ready"
    /\ Len(questions) = 2
    /\ currentQuestionIndex = 1
    /\ last.op = "moveToNextQuestion"
    /\ last.ret = JSBool(FALSE)

\* an answer whose grade is an integer from 0 to 10 or no number at all and
\* whose isCorrect is a boolean
WellGraded(answer) ==
    /\ answer.isCorrect \in {JSBool(TRUE), JSBool(FALSE)}
    /\ answer.grade.k = "number" =>
          /\ answer.grade.q = 1
          /\ answer.grade.p \in 0..10

\* C34: when every recorded answer has a grade that is an integer from 0 to
\* 10 or absent and a boolean isCorrect, the overallScore getQuizProgress()
\* reports is between 0 and 100; the hint penalty does not take it below 0.
C34_OverallScoreInRange ==
    (/\ last.op = "getQuizProgress"
     /\ \A id \in DOMAIN userAnswers :
           \A j \in 1..Len(userAnswers[id]) : WellGraded(userAnswers[id][j]))
    => /\ last.ret.overallScore >= 0
       /\ last.ret.overallScore <= 100

\* C35 as stated: the completion flag is written only by init, completeQuiz
\* and restart (and starts false in the session a page load constructs):
\* submitAnswer, moveToNextQuestion, incrementHintCount and updateQuestion
\* leave it as it is, and a completed session stays completed until
\* restart() is called on it.
C35_CompletedUntilRestart ==
    [][/\ last'.op \in {"submitAnswer", "moveToNextQuestion",
                        "incrementHintCount", "updateQuestion"}
             => isCompleted' = isCompleted
       /\ isCompleted' # isCompleted
             => last'.op \in {"init", "completeQuiz", "restart", "constructor"}
       /\ (isCompleted /\ ~isCompleted')
             => last'.op \in {"restart", "constructor"}]_vars

\* C35: the completion flag is written only by init, completeQuiz and
\* restart (and starts false in the session a page load constructs):
\* submitAnswer, moveToNextQuestion, incrementHintCount and updateQuestion
\* leave it as it is, so answering or stepping past the last question does
\* not complete the quiz, and a completed session stays completed until
\* restart() or init() is called on it.
C35_CompletionFlagWriters ==
    [][/\ last'.op \in {"submitAnswer", "moveToNextQuestion",
                        "incrementHintCount", "updateQuestion"}
             => isCompleted' = isCompleted
       /\ isCompleted' # isCompleted
             => last'.op \in {"init", "completeQuiz", "restart", "constructor"}
       /\ (isCompleted /\ ~isCompleted')
             => last'.op \in {"restart", "init", "constructor"}]_vars

\* every question answered, a step past the last one refused, and the quiz
\* not completed
C35_Witness ==
    /\ last.op = "moveToNextQuestion"
    /\ last.ret = JSBool(FALSE)
    /\ Len(questions) = 2
    /\ currentQuestionIndex = 1
    /\ \A i \in 1..Len(questions) : questions[i].id \in DOMAIN userAnswers
    /\ ~isCompleted

\* C36: after init() on a non-empty bank the session is completed exactly
\* when the cursor is on the last index and the last question of the list
\* has at least one answer, correct or not; what completeQuiz() did in an
\* earlier session has no part in it.
C36_CompletedAfterInit ==
    (last.op = "init" /\ last.threw = "none" /\ Len(questions) >= 1)
    => (isCompleted
        <=> /\ currentQuestionIndex = Len(questions) - 1
            /\ questions[Len(questions)].id \in DOMAIN userAnswers)

\* init found the last of two questions answered correctly and the first
\* one unanswered: the cursor is on the last question and the session is
\* completed
C36_Witness ==
    /\ last.op = "init"
    /\ last.threw = "none"
    /\ Len(questions) = 2
    /\ isCompleted
    /\ questions[1].id \notin DOMAIN userAnswers
    /\ GetLatestUserAnswer(userAnswers, questions[2].id) # Null
    /\ GetLatestUserAnswer(userAnswers, questions[2].id).isCorrect = JSBool(TRUE)

\* the stored answers of a history, as a set
StoredSet(store, id) ==
    {StoredHistoryOf(store, id)[j] : j \in 1..Len(StoredHistoryOf(store, id))}

\* C37: when a restart() overlaps a submitAnswer() in flight, once both have
\* finished the answer map and the 'userAnswers' store hold the same
\* histories, and the write of the submitAnswer puts back no answer that
\* the store no longer held.
C37_RestartOverlapConsistent ==
    [][/\ (inflight' = EmptyStore /\ ~restarting' /\ status' = "ready")
             => userAnswers' = MapOfStore(answerStore')
       /\ \A call \in DOMAIN inflight :
             call \notin DOMAIN inflight' =>
                LET mine == inflight[call].newAnswer
                IN StoredSet(answerStore', mine.questionId)
                      \subseteq StoredSet(answerStore, mine.questionId)
                                \cup {UserAnswerToJSON(mine)}]_vars

\* C38: across any sequence of sync calls and updateQuestion calls whose
\* updates do not set the version, the stored version of a question id never
\* decreases, and a sync replaces a stored question, a local edit included,
\* only by a remote question of a strictly greater version.
C38_StoredVersionMonotonic ==
    [][\A id \in DOMAIN questionStore :
          /\ id \in DOMAIN questionStore'
          /\ questionStore'[id].version >= questionStore[id].version
          /\ (last'.op = "sync" /\ questionStore'[id] # questionStore[id]) =>
                \E i \in 1..Len(last'.args.remote) :
                   /\ last'.args.remote[i].id = id
                   /\ last'.args.remote[i].version > questionStore[id].version]_vars

\* C39: when the session is driven only through the controls of the page
\* (Submit for the current question, Next Question, the hints, Finish Quiz,
\* Restart Quiz, a reload running init), in every state every question at an
\* index below the cursor has a latest answer, and that answer is correct.
C39_BelowCursorCorrect ==
    Rendered =>
        \A i \in 1..Len(questions) :
            i - 1 < currentQuestionIndex =>
                /\ GetLatestUserAnswer(userAnswers, questions[i].id) # Null
                /\ GetLatestUserAnswer(userAnswers, questions[i].id).isCorrect
                      = JSBool(TRUE)

====
